---- MODULE Spec2Model ----
(***************************************************************************)
(* Model of openai-image-cli (src/src/index.ts): one invocation of the    *)
(* command line tool.  parseArgs resolves the prompt and the request      *)
(* parameters, generateImages validates them, issues the generation call  *)
(* and runs the sequential download-and-save loop.                        *)
(*                                                                         *)
(* Text is a sequence of one-character strings, so that trimming, integer  *)
(* parsing and filename formatting are computed rather than assumed.      *)
(* Everything the process does to the outside world (console lines, the   *)
(* generation request, fetches, file writes) is appended to `events' in   *)
(* program order.                                                          *)
(***************************************************************************)
EXTENDS Integers, Sequences, FiniteSets, TLC

VARIABLES argv, apiKey, promptFileState, pc, params, events, response, i, now,
          disk, exitCode

vars == <<argv, apiKey, promptFileState, pc, params, events, response, i, now,
          disk, exitCode>>

(***************************************************************************)
(* Bounds of the model.                                                    *)
(***************************************************************************)
MaxStrLen == 2
MaxEntries == 3
ClockStart == 9
MaxClock == 11

(***************************************************************************)
(* Text helpers.                                                           *)
(***************************************************************************)
Alphabet == {" ", "a"}

Whitespace == {" ", "\n", "\t"}

DigitChars == <<"0", "1", "2", "3", "4", "5", "6", "7", "8", "9">>

IsDigit(c) == \E d \in 1..10 : DigitChars[d] = c

DigitVal(c) == (CHOOSE d \in 1..10 : DigitChars[d] = c) - 1

Strings == UNION {[1..len -> Alphabet] : len \in 0..MaxStrLen}

Min(a, b) == IF a < b THEN a ELSE b

\* An optional value: JavaScript undefined / null, or a text.
Absent == [present |-> FALSE, text |-> <<>>]

Some(s) == [present |-> TRUE, text |-> s]

\* JavaScript truthiness of an optional string: undefined, null and "" are falsy.
Truthy(o) == o.present /\ o.text # <<>>

RECURSIVE TrimStart(_)
TrimStart(s) ==
    IF s # <<>> /\ Head(s) \in Whitespace THEN TrimStart(Tail(s)) ELSE s

RECURSIVE TrimEnd(_)
TrimEnd(s) ==
    IF s # <<>> /\ s[Len(s)] \in Whitespace
    THEN TrimEnd(SubSeq(s, 1, Len(s) - 1))
    ELSE s

\* String.prototype.trim
Trim(s) == TrimEnd(TrimStart(s))

\* Value of the longest prefix of decimal digits of s, given the value so far.
RECURSIVE DigitRun(_, _)
DigitRun(s, acc) ==
    IF s # <<>> /\ IsDigit(Head(s))
    THEN DigitRun(Tail(s), acc * 10 + DigitVal(Head(s)))
    ELSE acc

NaN == [nan |-> TRUE, val |-> 0]

Num(v) == [nan |-> FALSE, val |-> v]

\* parseInt(s, 10): leading whitespace is skipped, an optional sign is read,
\* then the longest run of digits; no digit at all gives NaN.
ParseInt(s) ==
    LET t == TrimStart(s)
        signed == t # <<>> /\ Head(t) \in {"-", "+"}
        body == IF signed THEN Tail(t) ELSE t
    IN  IF body = <<>> \/ ~IsDigit(Head(body))
        THEN NaN
        ELSE IF signed /\ Head(t) = "-"
             THEN Num(0 - DigitRun(body, 0))
             ELSE Num(DigitRun(body, 0))

\* The relational operator n > k on a JavaScript number: false for NaN.
GreaterThan(n, k) == ~n.nan /\ n.val > k

\* Decimal rendering of a non-negative integer in a template literal.
RECURSIVE ToDigits(_)
ToDigits(n) ==
    IF n < 10
    THEN <<DigitChars[n + 1]>>
    ELSE ToDigits(n \div 10) \o <<DigitChars[(n % 10) + 1]>>

(***************************************************************************)
(* Command line, environment and file system of one invocation.            *)
(***************************************************************************)
Models == {"dall-e-3", "dall-e-2", "gpt-image", "gpt-image-mini", "other-model"}

Sizes == {"1024x1024", "512x512"}

DefaultSize == "1024x1024"

DefaultN == <<"1">>

DefaultModel == "dall-e-3"

\* Values given to --n: plain counts, zero, a negative number, text, a number
\* followed by text, a number after blanks.
NTokens == {<<"1">>, <<"2">>, <<"3">>, <<"0">>, <<"-", "1">>, <<"a">>,
            <<"2", "a">>, <<" ", "2">>, <<>>}

ApiKeys == {Absent, Some(<<>>), Some(<<"k">>)}

Paths == {<<>>, <<"p">>}

ReadErrors == {"ENOENT: no such file or directory", "EACCES: permission denied"}

Readable(s) == [ok |-> TRUE, contents |-> s, error |-> ""]

Unreadable(e) == [ok |-> FALSE, contents |-> <<>>, error |-> e]

NoFile == Unreadable("ENOENT: no such file or directory")

FileStates == {Readable(s) : s \in Strings} \cup {Unreadable(e) : e \in ReadErrors}

Urls == {Absent, Some(<<>>), Some(<<"u">>)}

ApiErrors == {[hasResponse |-> TRUE, status |-> 400, message |-> "rejected"],
              [hasResponse |-> FALSE, status |-> 0, message |-> "network"]}

DownloadFailures == {"fetch failed", "body failed", "write failed"}

Cwd == <<".", "/">>

(***************************************************************************)
(* Events, in program order.                                               *)
(***************************************************************************)
Console(stream, text) == [type |-> "console", stream |-> stream, text |-> text]

ConsoleModel(stream, text, model) ==
    [type |-> "console", stream |-> stream, text |-> text, model |-> model]

ConsoleIndex(stream, text, index) ==
    [type |-> "console", stream |-> stream, text |-> text, index |-> index]

ConsoleDetail(stream, text, detail) ==
    [type |-> "console", stream |-> stream, text |-> text, detail |-> detail]

ConsoleFailure(stream, text, index, detail) ==
    [type |-> "console", stream |-> stream, text |-> text, index |-> index,
     detail |-> detail]

Request(p) ==
    [type |-> "request", model |-> p.model, prompt |-> p.prompt.text,
     n |-> p.n, size |-> p.size]

Fetch(url) == [type |-> "fetch", url |-> url]

Write(path) == [type |-> "write", path |-> path]

(***************************************************************************)
(* parseArgs                                                               *)
(***************************************************************************)
Resolved(p) == [ok |-> TRUE, prompt |-> p, error |-> ""]

\* A variant that reports a fixed text instead of the error's message.
ReadFailedGeneric(e) == [ok |-> FALSE, prompt |-> Absent, error |-> "unknown error"]

ReadFailed(e) == [ok |-> FALSE, prompt |-> Absent, error |-> e]

\* A variant that consults --prompt before the positional argument.
ResolvePromptFlagFirst(args, options, file) ==
    IF Truthy(options.prompt)
    THEN Resolved(Some(options.prompt.text))
    ELSE IF Len(args) > 0
         THEN Resolved(Some(args[1]))
         ELSE IF Truthy(options.promptFile)
              THEN IF file.ok
                   THEN Resolved(Some(Trim(file.contents)))
                   ELSE ReadFailed(file.error)
              ELSE Resolved(Absent)

\* Priority: positional argument > --prompt > --prompt-file.
ResolvePrompt(args, options, file) ==
    IF Len(args) > 0
    THEN Resolved(Some(args[1]))
    ELSE IF Truthy(options.prompt)
         THEN Resolved(Some(options.prompt.text))
         ELSE IF Truthy(options.promptFile)
              THEN IF file.ok
                   THEN Resolved(Some(Trim(file.contents)))
                   ELSE ReadFailed(file.error)
              ELSE Resolved(Absent)

NoParams == [prompt |-> Absent, size |-> DefaultSize, n |-> NaN, model |-> DefaultModel]

ParseArgs ==
    /\ pc = "start"
    /\ LET r == ResolvePrompt(argv.args, argv, promptFileState)
       IN  IF r.ok
           THEN /\ params' = [prompt |-> r.prompt,
                              size |-> argv.size,
                              n |-> ParseInt(argv.n),
                              model |-> argv.model]
                /\ pc' = "generate"
                /\ UNCHANGED <<events, exitCode>>
           ELSE /\ events' = Append(events,
                       ConsoleDetail("error", "Error reading prompt file: ", r.error))
                /\ pc' = "exited"
                /\ exitCode' = 1
                /\ UNCHANGED params
    /\ UNCHANGED <<argv, apiKey, promptFileState, response, i, now, disk>>

(***************************************************************************)
(* generateImages, up to the outbound call                                 *)
(***************************************************************************)
\* A variant that only rejects an unset variable (apiKey === undefined).
KeyUndefinedOnly(key) == ~key.present

KeyMissing(key) == ~Truthy(key)

\* A variant without the prompt validation.
PromptNeverMissing(prompt) == FALSE

PromptMissing(prompt) == ~Truthy(prompt)

SingleImageModels == {"dall-e-3", "gpt-image", "gpt-image-mini"}

\* A variant that knows dall-e-3 as the only single-image model.
MustClampDallE3Only(model, n) == model = "dall-e-3" /\ GreaterThan(n, 1)

\* A variant that forces n to 1 whatever the model.
MustClampAnyModel(model, n) == GreaterThan(n, 1)

\* The condition under which n is forced to 1.
MustClamp(model, n) == model \in SingleImageModels /\ GreaterThan(n, 1)

StartGeneration ==
    /\ pc = "generate"
    /\ IF KeyMissing(apiKey)
       THEN /\ events' = events \o
                   <<Console("error", "Error: OPENAI_API_KEY environment variable is not set"),
                     Console("error", "Please set your OpenAI API key: export OPENAI_API_KEY=your-key-here")>>
            /\ pc' = "exited"
            /\ exitCode' = 1
            /\ UNCHANGED params
       ELSE IF PromptMissing(params.prompt)
       THEN /\ events' = events \o
                   <<Console("error", "Error: Prompt is required"),
                     Console("error", "Use --help for usage information")>>
            /\ pc' = "exited"
            /\ exitCode' = 1
            /\ UNCHANGED params
       ELSE /\ params' = IF MustClamp(params.model, params.n)
                         THEN [params EXCEPT !.n = Num(1)]
                         ELSE params
            /\ events' = events \o
                   (IF MustClamp(params.model, params.n)
                    THEN <<ConsoleModel("warn", "only supports n=1. Setting n to 1.", params.model)>>
                    ELSE <<>>) \o
                   <<[type |-> "console", stream |-> "log", text |-> "Generating image(s) with",
                      n |-> params'.n, model |-> params.model],
                     [type |-> "console", stream |-> "log", text |-> "Prompt: ",
                      prompt |-> params.prompt.text],
                     [type |-> "console", stream |-> "log", text |-> "Size: ",
                      size |-> params.size],
                     Request(params')>>
            /\ pc' = "awaiting"
            /\ UNCHANGED exitCode
    /\ UNCHANGED <<argv, apiKey, promptFileState, response, i, now, disk>>

(***************************************************************************)
(* The outbound generation call and its two outcomes                       *)
(***************************************************************************)
\* The provider returns at most the requested number of entries; a count it
\* cannot have been asked for leaves only the bound of the model.
MaxReturned(n) == IF GreaterThan(n, 0) THEN Min(n.val, MaxEntries) ELSE MaxEntries

Entries(n) == UNION {[1..len -> [url : Urls]] : len \in 0..MaxReturned(n)}

\* The outcome of the call: pending, thrown, or returned with response.data
\* absent or a list of entries.
NoResponse == [outcome |-> "pending", present |-> FALSE, list |-> <<>>]

Thrown == [outcome |-> "thrown", present |-> FALSE, list |-> <<>>]

Responses(n) == {[outcome |-> "returned", present |-> FALSE, list |-> <<>>]} \cup
                {[outcome |-> "returned", present |-> TRUE, list |-> l] : l \in Entries(n)}

\* A variant that goes back to issue the call again after a failure.
RetryAfterCallFailure == "generate"

\* The catch block of generateImages ends the process: no second attempt.
AfterCallFailure == "exited"

GenerationFails ==
    /\ pc = "awaiting"
    /\ \E e \in ApiErrors :
          events' = events \o
              (<<Console("error", "Error generating images:")>> \o
               (IF e.hasResponse
                THEN <<[type |-> "console", stream |-> "error", text |-> "Status: ",
                        status |-> e.status],
                       ConsoleDetail("error", "Message: ", e.message)>>
                ELSE <<ConsoleDetail("error", "", e.message)>>))
    /\ response' = Thrown
    /\ pc' = AfterCallFailure
    /\ exitCode' = IF AfterCallFailure = "exited" THEN 1 ELSE exitCode
    /\ UNCHANGED <<argv, apiKey, promptFileState, params, i, now, disk>>

\* A variant that only rejects an absent data field.
NoImagesAbsentOnly(r) == ~r.present

\* !response.data || response.data.length === 0
NoImages(r) == ~r.present \/ Len(r.list) = 0

GenerationReturns ==
    /\ pc = "awaiting"
    /\ \E r \in Responses(params.n) :
          /\ response' = r
          /\ IF NoImages(r)
             THEN /\ events' = events \o
                         <<[type |-> "console", stream |-> "log",
                            text |-> "Successfully generated image(s):", count |-> 0],
                           Console("error", "No images were generated")>>
                  /\ pc' = "exited"
                  /\ exitCode' = 1
                  /\ UNCHANGED i
             ELSE /\ events' = Append(events,
                         [type |-> "console", stream |-> "log",
                          text |-> "Successfully generated image(s):",
                          count |-> Len(r.list)])
                  /\ i' = 0
                  /\ pc' = "loop"
                  /\ UNCHANGED exitCode
    /\ UNCHANGED <<argv, apiKey, promptFileState, params, now, disk>>

(***************************************************************************)
(* The download-and-save loop                                              *)
(***************************************************************************)
\* A variant that names the file after the timestamp alone.
FileNameNoIndex(timestamp, index) ==
    <<"generated_image_">> \o ToDigits(timestamp) \o <<".png">>

\* A variant that uses the 0-based loop variable as the index.
FileNameZeroBased(timestamp, index) ==
    <<"generated_image_">> \o ToDigits(timestamp) \o <<"_">> \o
    ToDigits(index) \o <<".png">>

\* `generated_image_${timestamp}_${i + 1}.png`, i being the loop variable.
FileName(timestamp, index) ==
    <<"generated_image_">> \o ToDigits(timestamp) \o <<"_">> \o
    ToDigits(index + 1) \o <<".png">>

\* path.join(process.cwd(), filename)
Join(dir, name) == dir \o name

\* `continue` on an entry without URL: on to the next entry.
AfterMissingUrl(index, length) == index + 1

\* A variant that leaves the loop after a failed download.
BreakAfterFailedDownload(index, length) == length

\* The inner catch block falls through to the next iteration.
AfterFailedDownload(index, length) == index + 1

\* Entry i has no URL: report it and go on.
SkipMissingUrl ==
    /\ pc = "loop"
    /\ i < Len(response.list)
    /\ ~Truthy(response.list[i + 1].url)
    /\ events' = Append(events, ConsoleIndex("error", "Image: No URL returned", i + 1))
    /\ i' = AfterMissingUrl(i, Len(response.list))
    /\ UNCHANGED <<argv, apiKey, promptFileState, pc, params, response, now, disk, exitCode>>

\* Entry i is fetched and written to a file named after the clock and i.
DownloadSaved ==
    /\ pc = "loop"
    /\ i < Len(response.list)
    /\ Truthy(response.list[i + 1].url)
    /\ \E timestamp \in now..Min(now + 1, MaxClock) :
          LET filepath == Join(Cwd, FileName(timestamp, i))
          IN  /\ now' = timestamp
              /\ disk' = disk \cup {filepath}
              /\ events' = events \o
                     <<ConsoleIndex("log", "Image:", i + 1),
                       [type |-> "console", stream |-> "log", text |-> "URL: ",
                        url |-> response.list[i + 1].url.text],
                       Fetch(response.list[i + 1].url.text),
                       Write(filepath),
                       [type |-> "console", stream |-> "log", text |-> "Saved to: ",
                        path |-> filepath]>>
    /\ i' = i + 1
    /\ UNCHANGED <<argv, apiKey, promptFileState, pc, params, response, exitCode>>

\* Fetching, reading the body or writing the file of entry i throws.
DownloadFailed ==
    /\ pc = "loop"
    /\ i < Len(response.list)
    /\ Truthy(response.list[i + 1].url)
    /\ \E failure \in DownloadFailures :
          /\ events' = events \o
                 <<ConsoleIndex("log", "Image:", i + 1),
                   [type |-> "console", stream |-> "log", text |-> "URL: ",
                    url |-> response.list[i + 1].url.text],
                   Fetch(response.list[i + 1].url.text),
                   ConsoleFailure("error", "Failed to download image", i + 1, failure)>>
          /\ \E timestamp \in now..Min(now + 1, MaxClock) :
                now' = IF failure = "write failed" THEN timestamp ELSE now
    /\ i' = AfterFailedDownload(i, Len(response.list))
    /\ UNCHANGED <<argv, apiKey, promptFileState, pc, params, response, disk, exitCode>>

\* The loop is over: the process ends normally.
LoopDone ==
    /\ pc = "loop"
    /\ i >= Len(response.list)
    /\ events' = Append(events, Console("log", "Done!"))
    /\ pc' = "exited"
    /\ exitCode' = 0
    /\ UNCHANGED <<argv, apiKey, promptFileState, params, response, i, now, disk>>

(***************************************************************************)
(* Specification                                                           *)
(***************************************************************************)
Argv(args, prompt, promptFile, size, n, model) ==
    [args |-> args, prompt |-> prompt, promptFile |-> promptFile,
     size |-> size, n |-> n, model |-> model]

OptionalStrings == {Absent} \cup {Some(s) : s \in Strings}

\* Every combination of the three prompt sources, other options at their defaults.
PromptInvocations ==
    {Argv(args, prompt, promptFile, DefaultSize, DefaultN, DefaultModel) :
        args \in {<<>>} \cup {<<s>> : s \in Strings},
        prompt \in OptionalStrings,
        promptFile \in {Absent} \cup {Some(path) : path \in Paths}}

\* Every combination of size, count and model, with or without a prompt.
RequestInvocations ==
    {Argv(args, Absent, Absent, size, n, model) :
        args \in {<<>>, << <<"a">> >>},
        size \in Sizes, n \in NTokens, model \in Models}

Init ==
    /\ argv \in PromptInvocations \cup RequestInvocations
    /\ apiKey \in ApiKeys
    /\ promptFileState \in IF Truthy(argv.promptFile) THEN FileStates ELSE {NoFile}
    /\ pc = "start"
    /\ params = NoParams
    /\ events = <<>>
    /\ response = NoResponse
    /\ i = 0
    /\ now = ClockStart
    /\ disk = {}
    /\ exitCode = 0

Next ==
    \/ ParseArgs
    \/ StartGeneration
    \/ GenerationFails
    \/ GenerationReturns
    \/ SkipMissingUrl
    \/ DownloadSaved
    \/ DownloadFailed
    \/ LoopDone

Spec == Init /\ [][Next]_vars

(***************************************************************************)
(* Observations on the events of a run                                     *)
(***************************************************************************)
EventIndices(type) == {k \in DOMAIN events : events[k].type = type}

IsConsole(k, stream, text) ==
    /\ events[k].type = "console"
    /\ events[k].stream = stream
    /\ events[k].text = text

Printed(stream, text) == \E k \in DOMAIN events : IsConsole(k, stream, text)

RequestCount == Cardinality(EventIndices("request"))

ClampWarning(k) == IsConsole(k, "warn", "only supports n=1. Setting n to 1.")

(***************************************************************************)
(* C1: whenever every supplied prompt source is non-empty (and the prompt  *)
(* file, if given, is readable with non-empty contents), parseArgs returns *)
(* and the prompt it returns is the positional argument if present, else   *)
(* the --prompt value if present, else the trimmed contents of the file.   *)
(***************************************************************************)
PositionalGiven == Len(argv.args) > 0

SourcesNonEmpty ==
    /\ PositionalGiven \/ argv.prompt.present \/ argv.promptFile.present
    /\ PositionalGiven => argv.args[1] # <<>>
    /\ argv.prompt.present => argv.prompt.text # <<>>
    /\ argv.promptFile.present =>
          /\ argv.promptFile.text # <<>>
          /\ promptFileState.ok
          /\ promptFileState.contents # <<>>

ExpectedPrompt ==
    IF PositionalGiven THEN argv.args[1]
    ELSE IF argv.prompt.present THEN argv.prompt.text
    ELSE Trim(promptFileState.contents)

C1_PromptPrecedence ==
    (pc # "start" /\ SourcesNonEmpty) =>
        /\ ~Printed("error", "Error reading prompt file: ")
        /\ params.prompt = Some(ExpectedPrompt)

\* All three sources given with different texts: the positional one is used.
C1_Witness ==
    /\ pc = "generate"
    /\ SourcesNonEmpty
    /\ PositionalGiven /\ argv.prompt.present /\ argv.promptFile.present
    /\ argv.args[1] # argv.prompt.text
    /\ argv.args[1] # Trim(promptFileState.contents)
    /\ params.prompt = Some(argv.args[1])

(***************************************************************************)
(* C2: with OPENAI_API_KEY unset or empty the generation request is never  *)
(* issued and a process that has ended has exit code 1, whatever the       *)
(* prompt, model, size and count are.                                      *)
(***************************************************************************)
CredentialMissing == ~apiKey.present \/ apiKey.text = <<>>

C2_MissingCredential ==
    CredentialMissing =>
        /\ RequestCount = 0
        /\ pc \in {"start", "generate", "exited"}
        /\ pc = "exited" => exitCode = 1

\* An invocation with a usable prompt and a multi-image model that ended on
\* the credential check.
C2_Witness ==
    /\ pc = "exited"
    /\ CredentialMissing
    /\ params.prompt.present /\ params.prompt.text # <<>>
    /\ argv.model = "dall-e-2"
    /\ Printed("error", "Error: OPENAI_API_KEY environment variable is not set")
    /\ exitCode = 1

(***************************************************************************)
(* C3: when neither a positional argument nor --prompt nor --prompt-file   *)
(* is given, the generation request is never issued and a process that has *)
(* ended has exit code 1.                                                  *)
(***************************************************************************)
NoPromptSource ==
    ~PositionalGiven /\ ~argv.prompt.present /\ ~argv.promptFile.present

C3_MissingPrompt ==
    NoPromptSource =>
        /\ RequestCount = 0
        /\ pc \in {"start", "generate", "exited"}
        /\ pc = "exited" => exitCode = 1

\* An invocation with a credential but no prompt source that ended on the
\* prompt check.
C3_Witness ==
    /\ pc = "exited"
    /\ NoPromptSource
    /\ ~CredentialMissing
    /\ Printed("error", "Error: Prompt is required")
    /\ exitCode = 1

(***************************************************************************)
(* C4: for a model of {dall-e-3, gpt-image, gpt-image-mini} and a          *)
(* requested count above 1, every generation request carries the count 1   *)
(* and is preceded by the clamp warning.                                   *)
(***************************************************************************)
RequestedCount == ParseInt(argv.n)

SingleImageOnly == argv.model \in {"dall-e-3", "gpt-image", "gpt-image-mini"}

C4_SingleImageClamp ==
    (SingleImageOnly /\ ~RequestedCount.nan /\ RequestedCount.val > 1) =>
        \A k \in EventIndices("request") :
            /\ events[k].n = [nan |-> FALSE, val |-> 1]
            /\ \E j \in 1..(k - 1) : ClampWarning(j) /\ events[j].model = argv.model

\* gpt-image-mini asked for three images: the request carries one.
C4_Witness ==
    /\ argv.model = "gpt-image-mini"
    /\ argv.n = <<"3">>
    /\ \E k \in EventIndices("request") :
          /\ events[k].n.val = 1
          /\ \E j \in 1..(k - 1) : ClampWarning(j)

(***************************************************************************)
(* C5: for a model outside the single-image-only set and a positive        *)
(* requested count n, every generation request carries n and no clamp      *)
(* warning is printed; with count 3 and three returned entries that all    *)
(* have a URL, three downloads are attempted.                              *)
(***************************************************************************)
FetchCount == Cardinality(EventIndices("fetch"))

AllHaveUrl ==
    \A k \in DOMAIN response.list :
        response.list[k].url.present /\ response.list[k].url.text # <<>>

C5_CountPassesThrough ==
    (~SingleImageOnly /\ ~RequestedCount.nan /\ RequestedCount.val >= 1) =>
        /\ \A k \in EventIndices("request") : events[k].n = RequestedCount
        /\ \A k \in DOMAIN events : ~ClampWarning(k)
        /\ (/\ pc = "exited"
            /\ RequestedCount.val = 3
            /\ Len(response.list) = 3
            /\ AllHaveUrl) => FetchCount = 3

\* dall-e-2 asked for three images, three URLs returned, three fetches made.
C5_Witness ==
    /\ pc = "exited"
    /\ argv.model = "dall-e-2"
    /\ argv.n = <<"3">>
    /\ \E k \in EventIndices("request") : events[k].n.val = 3
    /\ Len(response.list) = 3
    /\ AllHaveUrl
    /\ FetchCount = 3

(***************************************************************************)
(* Observations on the returned batch                                      *)
(***************************************************************************)
Returned == response.outcome = "returned"

BatchSize == Len(response.list)

HasUrl(k) == response.list[k].url.present /\ response.list[k].url.text # <<>>

MissingUrlCount == Cardinality({k \in DOMAIN response.list : ~HasUrl(k)})

FailedDownloadCount ==
    Cardinality({k \in DOMAIN events : IsConsole(k, "error", "Failed to download image")})

WriteCount == Cardinality(EventIndices("write"))

LoopFinished == pc = "exited" /\ Returned /\ BatchSize >= 1

(***************************************************************************)
(* C6: after a generation call that returned N >= 1 entries of which M     *)
(* lack a URL, the finished process has exit code 0 and has written one    *)
(* file per entry that has a URL and whose download and write succeeded:   *)
(* N - M files less the failed downloads, hence exactly N - M when none    *)
(* failed.                                                                 *)
(***************************************************************************)
C6_FilesWritten ==
    LoopFinished =>
        /\ exitCode = 0
        /\ Cardinality(disk) = BatchSize - MissingUrlCount - FailedDownloadCount
        /\ WriteCount = Cardinality(disk)
        /\ FailedDownloadCount = 0 => Cardinality(disk) = BatchSize - MissingUrlCount

\* The statement as first made: exactly N - M files, whatever the downloads do.
C6_Original ==
    LoopFinished =>
        /\ exitCode = 0
        /\ Cardinality(disk) = BatchSize - MissingUrlCount

\* Three entries, one without URL, one failed download, one file on disk.
C6_Witness ==
    /\ LoopFinished
    /\ BatchSize = 3
    /\ MissingUrlCount = 1
    /\ FailedDownloadCount = 1
    /\ Cardinality(disk) = 1
    /\ exitCode = 0

(***************************************************************************)
(* C7: when the generation call returns without entries (data absent or    *)
(* empty) no download is attempted, no file is written and the process     *)
(* ends with exit code 1.                                                  *)
(***************************************************************************)
C7_ZeroEntries ==
    (Returned /\ BatchSize = 0) =>
        /\ pc = "exited"
        /\ exitCode = 1
        /\ disk = {}
        /\ WriteCount = 0
        /\ FetchCount = 0

\* The call returned an empty list.
C7_Witness ==
    /\ Returned
    /\ response.present
    /\ BatchSize = 0
    /\ exitCode = 1
    /\ pc = "exited"

(***************************************************************************)
(* C8: the loop visits the entries 1..N in order whatever happens to each: *)
(* while it runs the entries visited are exactly 1..i, and once the        *)
(* process has ended after a non-empty response all N entries have been    *)
(* visited, every entry with a URL has been fetched and the exit code is   *)
(* 0, also when no file could be written.                                  *)
(***************************************************************************)
IsVisit(e) ==
    /\ e.type = "console"
    /\ e.text \in {"Image:", "Image: No URL returned"}

Visits == SelectSeq(events, IsVisit)

Visited == [k \in DOMAIN Visits |-> Visits[k].index]

UpTo(n) == [k \in 1..n |-> k]

C8_LoopNeverAborts ==
    /\ (pc = "loop") => Visited = UpTo(i)
    /\ LoopFinished =>
          /\ Visited = UpTo(BatchSize)
          /\ FetchCount = BatchSize - MissingUrlCount
          /\ exitCode = 0

\* Three entries, the first download failed, nothing written, exit code 0.
C8_Witness ==
    /\ LoopFinished
    /\ BatchSize = 3
    /\ HasUrl(1) /\ HasUrl(3)
    /\ FailedDownloadCount = 2
    /\ disk = {}
    /\ Visited = <<1, 2, 3>>
    /\ exitCode = 0

(***************************************************************************)
(* C9: at most one generation request is ever issued, and when it fails    *)
(* the process has ended with exit code 1 after exactly one request, no    *)
(* fetch and no file.                                                      *)
(***************************************************************************)
C9_SingleCallNoRetry ==
    /\ RequestCount <= 1
    /\ response.outcome = "thrown" =>
          /\ pc = "exited"
          /\ exitCode = 1
          /\ RequestCount = 1
          /\ FetchCount = 0
          /\ WriteCount = 0
          /\ disk = {}

\* The single call failed.
C9_Witness ==
    /\ response.outcome = "thrown"
    /\ Printed("error", "Error generating images:")
    /\ RequestCount = 1
    /\ pc = "exited"
    /\ exitCode = 1

(***************************************************************************)
(* C10: every file written is named generated_image_<digits>_<index>.png   *)
(* in the working directory, <index> being the 1-based position in the     *)
(* returned batch of the entry it was downloaded from; an entry that is    *)
(* skipped or fails leaves a gap.                                          *)
(***************************************************************************)
\* The batch position announced by the last "Image:" line before event k.
EntryOf(k) ==
    LET j == CHOOSE j \in 1..(k - 1) :
                 /\ IsConsole(j, "log", "Image:")
                 /\ \A m \in (j + 1)..(k - 1) : ~IsConsole(m, "log", "Image:")
    IN  events[j].index

Decimal(n) == IF n < 10 THEN <<DigitChars[n + 1]>>
              ELSE <<DigitChars[(n \div 10) + 1], DigitChars[(n % 10) + 1]>>

NamedFor(path, index) ==
    LET name == SubSeq(path, 3, Len(path))
    IN  /\ SubSeq(path, 1, 2) = <<".", "/">>
        /\ Len(name) >= 5
        /\ name[1] = "generated_image_"
        /\ name[Len(name)] = ".png"
        /\ \E u \in 3..(Len(name) - 2) :
              /\ name[u] = "_"
              /\ \A d \in 2..(u - 1) : IsDigit(name[d])
              /\ SubSeq(name, u + 1, Len(name) - 1) = Decimal(index)

C10_FileNames ==
    /\ \A k \in EventIndices("write") :
          /\ EntryOf(k) \in 1..BatchSize
          /\ HasUrl(EntryOf(k))
          /\ NamedFor(events[k].path, EntryOf(k))
    /\ disk = {events[k].path : k \in EventIndices("write")}

\* The first two entries are skipped or fail; the only file carries index 3.
C10_Witness ==
    /\ LoopFinished
    /\ BatchSize = 3
    /\ ~HasUrl(1)
    /\ HasUrl(2)
    /\ Cardinality(disk) = 1
    /\ \E path \in disk : NamedFor(path, 3)

(***************************************************************************)
(* C11: when the prompt comes from --prompt-file (no positional argument,  *)
(* no non-empty --prompt) and the file cannot be read, parseArgs ends the  *)
(* process with exit code 1 after printing a diagnostic that carries the   *)
(* message of the read error, and no generation request is ever issued.    *)
(***************************************************************************)
PromptFileInEffect ==
    /\ ~PositionalGiven
    /\ ~(argv.prompt.present /\ argv.prompt.text # <<>>)
    /\ argv.promptFile.present /\ argv.promptFile.text # <<>>

ReadErrorReported ==
    \E k \in DOMAIN events :
        /\ IsConsole(k, "error", "Error reading prompt file: ")
        /\ events[k].detail = promptFileState.error

C11_UnreadablePromptFile ==
    (PromptFileInEffect /\ ~promptFileState.ok) =>
        /\ RequestCount = 0
        /\ pc \in {"start", "exited"}
        /\ pc = "exited" =>
              /\ exitCode = 1
              /\ ReadErrorReported

\* A credential is set, the file is denied: the process ended in parseArgs.
C11_Witness ==
    /\ PromptFileInEffect
    /\ ~promptFileState.ok
    /\ promptFileState.error = "EACCES: permission denied"
    /\ ~CredentialMissing
    /\ pc = "exited"
    /\ exitCode = 1
    /\ ReadErrorReported

(***************************************************************************)
(* C12: the count carried by a generation request is a positive integer,   *)
(* whatever was given to --n and whatever the model.                       *)
(***************************************************************************)
C12_PositiveCount ==
    \A k \in EventIndices("request") :
        ~events[k].n.nan /\ events[k].n.val >= 1

====
